---- MODULE Spec2Model ----
(***************************************************************************)
(* A model of timepiece/crm/views.py: the permission-gated views of the    *)
(* timesheet/CRM application.  One request is one action; the store is the *)
(* set of rows the ORM reads and writes.                                   *)
(***************************************************************************)
EXTENDS Integers, Sequences, FiniteSets, TLC

VARIABLES
    users,      \* pks of the stored auth.User rows
    projects,   \* pks of the stored crm.Project rows
    businesses, \* pks of the stored crm.Business rows
    rels,       \* the stored crm.ProjectRelationship rows
    req,        \* the request being answered
    resp,       \* the response to it
    trace,      \* what the request did, in order: permission check, reads, writes
    hops,       \* redirects the client has followed since its request
    entries,    \* the stored entries.Entry rows, in pk order
    rows,       \* the rows of the table a list view searches
    procs       \* the requests in flight, when requests run concurrently

vars == <<users, projects, businesses, rels, req, resp, trace, hops, entries, rows, procs>>

\* What the specifications that do not use a variable hold it at.
Unused == hops = 0 /\ entries = <<>> /\ rows = {} /\ procs = <<>>
unused == <<hops, entries, rows, procs>>

(***************************************************************************)
(* Bounds.                                                                 *)
(***************************************************************************)
NumUsers == 2
NumProjects == 1

\* Python's None where a request parameter (a string) is expected.
None == "None"
\* Python's None where a model instance (a positive pk) is expected.
NoObj == 0

RelationshipTypes == {"lead"}

(***************************************************************************)
(* Request parameters are strings: the decimal pks of the stored rows, one *)
(* pk past them (names no row), the empty string and a non-numeric string. *)
(***************************************************************************)
PkStrings(n) == {ToString(i) : i \in 1..(n + 1)}
ParamValues(n) == PkStrings(n) \cup {"", "x"}

\* int(value), as the pk field's get_prep_value applies it to a lookup value.
IsInt(s) == \E i \in 0..9 : ToString(i) = s
int(s) == CHOOSE i \in 0..9 : ToString(i) = s

\* bool(value) of a request parameter: None and "" are falsy.
Truthy(s) == s # None /\ s # ""

(***************************************************************************)
(* django.shortcuts.get_object_or_404(Model, pk=value): the row, Http404    *)
(* when no row has the pk, and the ValueError of int(value) when the value *)
(* is not a number (only DoesNotExist is turned into Http404).             *)
(***************************************************************************)
get_object_or_404(table, value) ==
    IF ~IsInt(value) THEN [exc |-> "ValueError", obj |-> NoObj]
    ELSE IF int(value) \in table THEN [exc |-> "", obj |-> int(value)]
    ELSE [exc |-> "Http404", obj |-> NoObj]

\* The response an exception raised in a view becomes.
StatusOf(exc) ==
    CASE exc = "Http404" -> "not_found"
      [] exc = "PermissionDenied" -> "forbidden"
      [] OTHER -> "server_error"

(***************************************************************************)
(* Permission-gated dispatch.  A requester is [id, perms]: id 0 is the     *)
(* anonymous user, who holds no permission.                                *)
(***************************************************************************)
Anonymous == 0

RelPerms == {"crm.add_projectrelationship", "crm.change_projectrelationship",
             "crm.delete_projectrelationship"}

\* (mutant) DeleteBusiness declares EditBusiness's permission
Permissions_copied(view) ==
    CASE view \in {"ProjectTimesheet", "ProjectTimesheetCSV"}
            -> {"entries.view_project_time_sheet"}
      [] view \in {"ListBusinesses", "ViewBusiness"} -> {"crm.view_business"}
      [] view = "CreateBusiness" -> {"crm.add_business"}
      [] view \in {"DeleteBusiness", "EditBusiness"} -> {"crm.change_business"}
      [] view \in {"ListUsers", "ViewUser"} -> {"auth.view_user"}
      [] view = "CreateUser" -> {"auth.add_user"}
      [] view = "DeleteUser" -> {"auth.delete_user"}
      [] view = "EditUser" -> {"auth.change_user"}
      [] view \in {"ListProjects", "ViewProject"} -> {"crm.view_project"}
      [] view = "CreateProject" -> {"crm.add_project"}
      [] view = "DeleteProject" -> {"crm.delete_project"}
      [] view = "EditProject" -> {"crm.change_project"}
      [] view = "CreateRelationship" -> {"crm.add_projectrelationship"}
      [] view = "EditRelationship" -> {"crm.change_projectrelationship"}
      [] view = "DeleteRelationship" -> {"crm.delete_projectrelationship"}

\* The `permissions` attribute each view class declares (ProjectTimesheetCSV
\* inherits ProjectTimesheet's).
Permissions(view) ==
    CASE view \in {"ProjectTimesheet", "ProjectTimesheetCSV"}
            -> {"entries.view_project_time_sheet"}
      [] view \in {"ListBusinesses", "ViewBusiness"} -> {"crm.view_business"}
      [] view = "CreateBusiness" -> {"crm.add_business"}
      [] view = "DeleteBusiness" -> {"crm.delete_business"}
      [] view = "EditBusiness" -> {"crm.change_business"}
      [] view \in {"ListUsers", "ViewUser"} -> {"auth.view_user"}
      [] view = "CreateUser" -> {"auth.add_user"}
      [] view = "DeleteUser" -> {"auth.delete_user"}
      [] view = "EditUser" -> {"auth.change_user"}
      [] view \in {"ListProjects", "ViewProject"} -> {"crm.view_project"}
      [] view = "CreateProject" -> {"crm.add_project"}
      [] view = "DeleteProject" -> {"crm.delete_project"}
      [] view = "EditProject" -> {"crm.change_project"}
      [] view = "CreateRelationship" -> {"crm.add_projectrelationship"}
      [] view = "EditRelationship" -> {"crm.change_projectrelationship"}
      [] view = "DeleteRelationship" -> {"crm.delete_projectrelationship"}

\* PermissionsRequiredMixin.dispatch: the requester holds every permission
\* the view declares, or the request is refused before the view runs.
has_perms(perms, view) == Permissions(view) \subseteq perms

Refused(store) ==
    [status |-> "forbidden", rels |-> store, trace |-> <<"check_permissions">>]

\* What a view answers: the status, the rows it leaves, the steps it took.
Answer(status, store, steps) ==
    [status |-> status, rels |-> store, trace |-> <<"check_permissions">> \o steps]

(***************************************************************************)
(* User-project relationships.  A row is [user, project, types, n]; n      *)
(* tells apart rows of one (user, project) pair, as the surrogate key does. *)
(***************************************************************************)
RowsOf(store, u, p) == {r \in store : r.user = u /\ r.project = p}

\* (mutant) create() in place of get_or_create(): a row on every request
create_always(store, u, p) ==
    store \cup {[user |-> u, project |-> p, types |-> {},
                 n |-> Cardinality(RowsOf(store, u, p))]}

\* ProjectRelationship.objects.get_or_create(user=user, project=project)
get_or_create(store, u, p) ==
    IF RowsOf(store, u, p) # {} THEN store
    ELSE store \cup {[user |-> u, project |-> p, types |-> {},
                      n |-> Cardinality(RowsOf(store, u, p))]}

\* CreateRelationship.get_user; r.form_user is what SelectUserForm(POST)
\* .get_user() returns: a stored user or None.
get_user(r) ==
    IF Truthy(r.user_id) THEN get_object_or_404(users, r.user_id)
    ELSE [exc |-> "", obj |-> r.form_user]

\* CreateRelationship.get_project
get_project(r) ==
    IF Truthy(r.project_id) THEN get_object_or_404(projects, r.project_id)
    ELSE [exc |-> "", obj |-> r.form_project]

\* CreateRelationship.post
CreateRelationship_post(r, store) ==
    LET user == get_user(r)
        project == get_project(r)
        ru == IF Truthy(r.user_id) THEN <<"read:User">> ELSE <<>>
        rp == IF Truthy(r.project_id) THEN <<"read:Project">> ELSE <<>>
    IN  IF user.exc # "" THEN Answer(StatusOf(user.exc), store, ru)
        ELSE IF project.exc # "" THEN Answer(StatusOf(project.exc), store, ru \o rp)
        ELSE IF user.obj # NoObj /\ project.obj # NoObj
             THEN Answer("redirect", get_or_create(store, user.obj, project.obj),
                         ru \o rp \o <<"read:ProjectRelationship">>
                         \o (IF RowsOf(store, user.obj, project.obj) = {}
                             THEN <<"write:ProjectRelationship">> ELSE <<>>))
             ELSE Answer("redirect", store, ru \o rp)

\* RelationshipObjectMixin.get_object: get_object_or_404(self.model,
\* user__id=user_id, project__id=project_id).  A lookup value of None is an
\* IS NULL test, which no row passes; a non-numeric one is int()'s ValueError.
get_object(r, store) ==
    LET uid == r.user_id
        pid == r.project_id
    IN  IF (uid # None /\ ~IsInt(uid)) \/ (pid # None /\ ~IsInt(pid))
        THEN [exc |-> "ValueError", obj |-> {}]
        ELSE IF uid = None \/ pid = None THEN [exc |-> "Http404", obj |-> {}]
        ELSE LET found == RowsOf(store, int(uid), int(pid))
             IN  IF found = {} THEN [exc |-> "Http404", obj |-> {}]
                 ELSE IF Cardinality(found) > 1
                      THEN [exc |-> "MultipleObjectsReturned", obj |-> {}]
                      ELSE [exc |-> "", obj |-> found]

\* EditRelationship: UpdateView.get renders the form; UpdateView.post saves a
\* valid form (the row's types) and redirects, and renders the form again,
\* with its errors, when the form is invalid.
EditRelationship_view(r, store) ==
    LET object == get_object(r, store)
        row == CHOOSE x \in object.obj : TRUE
    IN  IF object.exc # ""
        THEN Answer(StatusOf(object.exc), store, <<"read:ProjectRelationship">>)
        ELSE IF r.method = "POST" /\ r.form_valid
             THEN Answer("redirect",
                         (store \ {row}) \cup {[row EXCEPT !.types = r.types]},
                         <<"read:ProjectRelationship", "write:ProjectRelationship">>)
             ELSE Answer("ok", store, <<"read:ProjectRelationship">>)

\* DeleteRelationship: DeleteView.get renders the confirmation; DeleteView.post
\* deletes the row and redirects.
DeleteRelationship_view(r, store) ==
    LET object == get_object(r, store)
    IN  IF object.exc # ""
        THEN Answer(StatusOf(object.exc), store, <<"read:ProjectRelationship">>)
        ELSE IF r.method = "POST"
             THEN Answer("redirect", store \ object.obj,
                         <<"read:ProjectRelationship", "write:ProjectRelationship">>)
             ELSE Answer("ok", store, <<"read:ProjectRelationship">>)

\* View.dispatch of the three relationship views, behind the permission check.
RelationshipView(r, store) ==
    IF ~has_perms(r.perms, r.view) THEN Refused(store)
    ELSE CASE r.view = "CreateRelationship" ->
                IF r.method = "POST" THEN CreateRelationship_post(r, store)
                ELSE Answer("method_not_allowed", store, <<>>)
           [] r.view = "EditRelationship" -> EditRelationship_view(r, store)
           [] r.view = "DeleteRelationship" -> DeleteRelationship_view(r, store)

(***************************************************************************)
(* User timesheets.  login_required (ViewUserTimesheet only) sends an      *)
(* anonymous requester to the login page before dispatch runs.             *)
(***************************************************************************)
login_required(view) == view \in {"QuickSearch", "ViewUserTimesheet", "EditSettings"}

\* (mutant) the permission is asked of the timesheet's own user too
UserTimesheet_dispatch_always(r) ==
    LET timesheet_user == get_object_or_404(users, r.user_id)
    IN  IF timesheet_user.exc # ""
        THEN [status |-> StatusOf(timesheet_user.exc), trace |-> <<"read:User">>]
        ELSE IF "entries.view_entry_summary" \notin r.perms
             THEN [status |-> StatusOf("PermissionDenied"),
                   trace |-> <<"read:User", "check_permissions">>]
             ELSE [status |-> "ok",
                   trace |-> <<"read:User", "check_permissions", "get">>]

\* UserTimesheetMixin.dispatch, then the view's get.  r.user_id is the URL's
\* user id (digits); r.id the requester's pk, r.perms their permissions.
UserTimesheet_dispatch(r) ==
    LET timesheet_user == get_object_or_404(users, r.user_id)
    IN  IF timesheet_user.exc # ""
        THEN [status |-> StatusOf(timesheet_user.exc), trace |-> <<"read:User">>]
        ELSE IF r.id # timesheet_user.obj /\ "entries.view_entry_summary" \notin r.perms
             THEN [status |-> StatusOf("PermissionDenied"),
                   trace |-> <<"read:User", "check_permissions">>]
             ELSE [status |-> "ok",
                   trace |-> <<"read:User", "check_permissions", "get">>
                             \o (IF r.view = "ViewUserTimesheetAjax"
                                 THEN <<"read:Entry">> ELSE <<>>)]

\* QuickSearch, ViewUserTimesheet, ViewUserTimesheetAjax, EditSettings: the
\* views that declare no `permissions`.
LoginView(r) ==
    IF login_required(r.view) /\ r.id = Anonymous
    THEN [status |-> "login_redirect", trace |-> <<>>]
    ELSE IF r.view \in {"ViewUserTimesheet", "ViewUserTimesheetAjax"}
         THEN UserTimesheet_dispatch(r)
         ELSE [status |-> "ok", trace |-> <<"get">>]

(***************************************************************************)
(* The weeks of a monthly timesheet.  A datetime is [day, sec, usec, tz]:  *)
(* the day counted from 1970-01-01, the second of the day, the microsecond *)
(* of the second, and "naive" or the time zone made_aware attached.        *)
(***************************************************************************)
\* datetime.date(year, month, day) as a day count (the proleptic Gregorian
\* calendar).
DaysFromCivil(y, m, d) ==
    LET yy == IF m <= 2 THEN y - 1 ELSE y
        era == yy \div 400
        yoe == yy - era * 400
        mp == IF m > 2 THEN m - 3 ELSE m + 9
        doy == (153 * mp + 2) \div 5 + d - 1
        doe == yoe * 365 + yoe \div 4 - yoe \div 100 + doy
    IN  era * 146097 + doe - 719468

Midnight(day) == [day |-> day, sec |-> 0, usec |-> 0, tz |-> "naive"]

\* date.weekday(): Monday is 0.  1970-01-01 was a Thursday.
weekday(day) == (day + 3) % 7

\* utils.get_week_start: the Monday of the day's week.
get_week_start(day) == day - weekday(day)

\* TimesheetSelectMonthForm.get_month_start: the first day of the month of
\* the form, a [year, month].
get_month_start(form) == DaysFromCivil(form.year, form.month, 1)

\* value - relativedelta(microseconds=1)
MinusMicrosecond(d) ==
    IF d.usec > 0 THEN [d EXCEPT !.usec = @ - 1]
    ELSE IF d.sec > 0 THEN [d EXCEPT !.sec = @ - 1, !.usec = 999999]
    ELSE [d EXCEPT !.day = @ - 1, !.sec = 86399, !.usec = 999999]

\* value + relativedelta(days=n)
PlusDays(d, n) == [d EXCEPT !.day = @ + n]

\* a < b on datetimes
Before(a, b) ==
    \/ a.day < b.day
    \/ a.day = b.day /\ a.sec < b.sec
    \/ a.day = b.day /\ a.sec = b.sec /\ a.usec < b.usec

\* TimesheetSelectMonthForm.get_extended_month_range: the month widened to
\* whole weeks, from the first instant of the week of its first day to the
\* last instant of the week of its last day.
get_extended_month_range(form) ==
    LET first == get_month_start(form)
        next_month == IF form.month = 12
                      THEN DaysFromCivil(form.year + 1, 1, 1)
                      ELSE DaysFromCivil(form.year, form.month + 1, 1)
    IN  <<Midnight(get_week_start(first)),
          MinusMicrosecond(Midnight(get_week_start(next_month - 1) + 7))>>

\* utils.add_timezone: make_aware attaches the current time zone and keeps
\* the wall-clock fields.
add_timezone(d) == [d EXCEPT !.tz = "current"]

RECURSIVE WeeksFrom(_, _)
\* The while loop of get_weeks.
WeeksFrom(cursor, end) ==
    IF Before(cursor, end)
    THEN LET next_week == PlusDays(cursor, 7)
         IN  <<<<add_timezone(cursor), add_timezone(MinusMicrosecond(next_week))>>>>
             \o WeeksFrom(next_week, end)
    ELSE <<>>

RECURSIVE WeeksFromClosed(_, _)
\* (mutant) each week ends where the next starts: no microsecond taken off
WeeksFromClosed(cursor, end) ==
    IF Before(cursor, end)
    THEN LET next_week == PlusDays(cursor, 7)
         IN  <<<<add_timezone(cursor), add_timezone(next_week)>>>>
             \o WeeksFromClosed(next_week, end)
    ELSE <<>>

get_weeks_closed(form) ==
    LET range == get_extended_month_range(form)
    IN  WeeksFromClosed(range[1], range[2])

\* ViewUserTimesheetAjax.get_weeks
get_weeks(form) ==
    LET range == get_extended_month_range(form)
    IN  WeeksFrom(range[1], range[2])

(***************************************************************************)
(* Project timesheets.  request.GET is a QueryDict: each key of the query  *)
(* string with the list of its values, in order.                           *)
(***************************************************************************)
Last(seq) == seq[Len(seq)]

\* urllib.urlencode(request_get): one key=value pair per item of
\* request_get.items(), which gives each key with the last of its values.
\* (Values are ASCII here.)
urlencode(qd) == {<<k, Last(qd[k])>> : k \in DOMAIN qd}

\* The QueryDict of a query string written by urlencode.
parse_qs(pairs) ==
    [k \in {pr[1] : pr \in pairs} |-> <<(CHOOSE pr \in pairs : pr[1] = k)[2]>>]

\* request_get.pop('csv')
pop(qd, key) == [k \in DOMAIN qd \ {key} |-> qd[k]]

\* ProjectTimesheet.get, which ProjectTimesheetCSV inherits; r.project_id is
\* the URL's project id (digits).
ProjectTimesheet_get(r) ==
    LET object == get_object_or_404(projects, r.project_id)
        encoded == urlencode(pop(r.query, "csv"))
        here == [view |-> r.view, project |-> object.obj, query |-> r.query]
    IN  IF object.exc # ""
        THEN [status |-> StatusOf(object.exc), location |-> here,
              trace |-> <<"check_permissions", "read:Project">>]
        ELSE IF "csv" \in DOMAIN r.query
             THEN [status |-> "redirect",
                   location |-> [view |-> "ProjectTimesheetCSV",
                                 project |-> object.obj,
                                 query |-> parse_qs(encoded)],
                   trace |-> <<"check_permissions", "read:Project">>]
             ELSE [status |-> "ok", location |-> here,
                   trace |-> <<"check_permissions", "read:Project", "read:Entry">>]

\* An entry is [user, activity, project, month, hours]: the names of its
\* user, the name of its activity (NoActivity: none), its project's pk, the
\* month its end time falls in, and its hours.
NoActivity == "None"

\* entries_qs: Entry.objects.timespan(from_date, span='month')
\*     .filter(project=project), with each entry's pk.
entries_qs(table, project, month) ==
    LET keep == {i \in DOMAIN table : table[i].project = project /\ table[i].month = month}
        RECURSIVE upto(_)
        upto(n) == IF n = 0 THEN <<>>
                   ELSE upto(n - 1) \o (IF n \in keep
                                        THEN <<[pk |-> n] @@ table[n]>> ELSE <<>>)
    IN  upto(Len(table))

RECURSIVE SumHours(_)
SumHours(qs) == IF qs = <<>> THEN 0 ELSE qs[1].hours + SumHours(Tail(qs))

\* qs.aggregate(hours=Sum('hours'))['hours']: SUM over no rows is NULL, which
\* the ORM returns as None.
aggregate(qs) ==
    IF qs = <<>> THEN [null |-> TRUE, value |-> 0]
    ELSE [null |-> FALSE, value |-> SumHours(qs)]

\* qs.order_by().values(key).annotate(sum=Sum('hours')): one row per value of
\* the key among the entries, with the hours of its entries added up.
annotate(qs, key) ==
    {[key |-> k,
      sum |-> LET Same(e) == e[key] = k IN SumHours(SelectSeq(qs, Same))] :
        k \in {qs[i][key] : i \in DOMAIN qs}}

\* .order_by('-sum'): the rows by falling sum, rows of equal sum in any order.
order_by_sum_desc(groups) ==
    {q \in [1..Cardinality(groups) -> groups] :
        /\ \A i, j \in DOMAIN q : i # j => q[i] # q[j]
        /\ \A i, j \in DOMAIN q : i < j => q[i].sum >= q[j].sum}

\* ProjectTimesheet.get_context_data: the contexts it can return (one per
\* order the store may give rows of equal sum).
get_context_data(table, project, month) ==
    LET qs == entries_qs(table, project, month)
    IN  [project : {project}, entries : {qs}, total : {aggregate(qs)},
         user_entries : order_by_sum_desc(annotate(qs, "user")),
         activity_entries : order_by_sum_desc(annotate(qs, "activity"))]

CsvHeader ==
    <<"Date", "User", "Activity", "Location", "Time In", "Time Out", "Breaks", "Hours">>

\* The cells of an entry's row.  Its dates, location and pause are not
\* modelled: those cells name the formatting applied and the field.
CsvCells(entry) ==
    <<[strftime |-> "%x", of |-> <<"start_time", entry.pk>>],
      entry.user.first \o " " \o entry.user.last,
      entry.activity,
      <<"location__name", entry.pk>>,
      [strftime |-> "%X", of |-> <<"start_time", entry.pk>>],
      [strftime |-> "%X", of |-> <<"end_time", entry.pk>>],
      [seconds_to_hours |-> <<"seconds_paused", entry.pk>>],
      entry.hours>>

RECURSIVE CsvData(_)
CsvData(qs) == IF qs = <<>> THEN <<>> ELSE <<CsvCells(qs[1])>> \o CsvData(Tail(qs))

\* (mutant) the header row is left out
convert_context_to_csv_headless(context) ==
    CsvData(context.entries) \o <<<<"", "", "", "", "", "", "Total:", context.total>>>>

\* ProjectTimesheetCSV.convert_context_to_csv
convert_context_to_csv(context) ==
    <<CsvHeader>> \o CsvData(context.entries)
    \o <<<<"", "", "", "", "", "", "Total:", context.total>>>>

ProjectTimesheetView(r) ==
    IF ~has_perms(r.perms, r.view)
    THEN [status |-> "forbidden",
          location |-> [view |-> r.view, project |-> NoObj, query |-> r.query],
          trace |-> <<"check_permissions">>]
    ELSE ProjectTimesheet_get(r)

(***************************************************************************)
(* Businesses, users, projects: the generic list, detail, create, delete   *)
(* and edit views behind PermissionsRequiredMixin.  A store is the four    *)
(* tables [users, projects, businesses, rels].                             *)
(***************************************************************************)
CrudViews ==
    {"ListBusinesses", "ViewBusiness", "CreateBusiness", "DeleteBusiness", "EditBusiness",
     "ListUsers", "ViewUser", "CreateUser", "DeleteUser", "EditUser",
     "ListProjects", "ViewProject", "CreateProject", "DeleteProject", "EditProject"}

\* The `model` attribute of a view class, as the name of its table.
model(view) ==
    CASE view \in {"ListBusinesses", "ViewBusiness", "CreateBusiness",
                   "DeleteBusiness", "EditBusiness"} -> "businesses"
      [] view \in {"ListUsers", "ViewUser", "CreateUser", "DeleteUser", "EditUser"}
            -> "users"
      [] OTHER -> "projects"

\* The generic view a view class extends.
base(view) ==
    CASE view \in {"ListBusinesses", "ListUsers", "ListProjects"} -> "SearchListView"
      [] view \in {"ViewBusiness", "ViewUser", "ViewProject"} -> "DetailView"
      [] view \in {"CreateBusiness", "CreateUser", "CreateProject"} -> "CreateView"
      [] view \in {"DeleteBusiness", "DeleteUser", "DeleteProject"} -> "DeleteView"
      [] OTHER -> "UpdateView"

\* The smallest pk the table does not hold.
FreshPk(table) == CHOOSE i \in 1..(Cardinality(table) + 1) : i \notin table

\* Deleting a user or a project deletes the relationships that reference it.
Cascade(st, m, pk) ==
    [st EXCEPT ![m] = @ \ {pk},
               !.rels = {row \in @ : ~(m = "users" /\ row.user = pk)
                                     /\ ~(m = "projects" /\ row.project = pk)}]

CrudView(r, st) ==
    LET m == model(r.view)
        object == get_object_or_404(st[m], r.pk)
        read == <<"check_permissions", "read:" \o m>>
        write == <<"check_permissions", "read:" \o m, "write:" \o m>>
        ans(status, store, steps) == [status |-> status, store |-> store, trace |-> steps]
    IN  IF ~has_perms(r.perms, r.view) THEN ans("forbidden", st, <<"check_permissions">>)
        ELSE CASE base(r.view) = "SearchListView" -> ans("ok", st, read)
               [] base(r.view) = "CreateView" ->
                    IF r.method = "POST" /\ r.form_valid
                    THEN ans("redirect", [st EXCEPT ![m] = @ \cup {FreshPk(@)}],
                             <<"check_permissions", "write:" \o m>>)
                    ELSE ans("ok", st, <<"check_permissions">>)
               [] OTHER ->
                    IF object.exc # "" THEN ans(StatusOf(object.exc), st, read)
                    ELSE IF base(r.view) = "DeleteView" /\ r.method = "POST"
                         THEN ans("redirect", Cascade(st, m, object.obj), write)
                    ELSE IF base(r.view) = "UpdateView" /\ r.method = "POST"
                            /\ r.form_valid
                         THEN ans("redirect", st, write)
                    ELSE ans("ok", st, read)

(***************************************************************************)
(* List views.  A text is a sequence of characters; a row of a searched    *)
(* table is its pk and the texts of its fields.                            *)
(***************************************************************************)
lower(c) == CASE c = "A" -> "a" [] c = "B" -> "b" [] OTHER -> c

Lower(text) == [i \in DOMAIN text |-> lower(text[i])]

\* field__icontains=search
icontains(text, search) ==
    \E i \in 1..(Len(text) - Len(search) + 1) :
        SubSeq(Lower(text), i, i + Len(search) - 1) = Lower(search)

\* The `search_fields` attribute of a list view, without the __icontains.
search_fields(view) ==
    CASE view = "ListUsers" -> {"first_name", "last_name", "email", "username"}
      [] OTHER -> {"name", "description"}

\* (mutant) ListUsers does not set redirect_if_one_result
redirect_if_one_result_unset(view) == view # "ListUsers"

\* The `redirect_if_one_result` attribute of a list view.
redirect_if_one_result(view) == TRUE

\* SearchListView.filter_form_valid: the rows one of whose search fields
\* contains the search text.
search_filter(view, form, queryset) ==
    IF form.search = <<>> THEN queryset
    ELSE {row \in queryset :
            \E f \in search_fields(view) : icontains(row[f], form.search)}

\* ListProjects.filter_form_valid; the other list views inherit
\* SearchListView's.
filter_form_valid(view, form, queryset) ==
    LET queryset1 == search_filter(view, form, queryset)
    IN  IF view = "ListProjects" /\ form.status # ""
        THEN {row \in queryset1 : row.status = form.status}
        ELSE queryset1

\* The detail view get_absolute_url of a list's rows points to.
DetailOf(view) ==
    CASE view = "ListBusinesses" -> "ViewBusiness"
      [] view = "ListUsers" -> "ViewUser"
      [] view = "ListProjects" -> "ViewProject"

\* SearchListView.get behind the permission check: r.bound tells whether a
\* search was submitted, r.form is the search form's cleaned data.
ListView(r, table) ==
    LET all == {table[i] : i \in DOMAIN table}
        object_list == IF r.bound THEN filter_form_valid(r.view, r.form, all) ELSE all
        nowhere == [view |-> r.view, pk |-> NoObj]
    IN  IF ~has_perms(r.perms, r.view)
        THEN [status |-> "forbidden", location |-> nowhere, object_list |-> {}]
        ELSE IF redirect_if_one_result(r.view) /\ r.bound /\ Cardinality(object_list) = 1
             THEN [status |-> "redirect",
                   location |-> [view |-> DetailOf(r.view),
                                 pk |-> (CHOOSE row \in object_list : TRUE).pk],
                   object_list |-> object_list]
             ELSE [status |-> "ok", location |-> nowhere, object_list |-> object_list]

(***************************************************************************)
(* Requests.                                                               *)
(***************************************************************************)
\* The permission sets requesters hold: none, one, or all of `all`.
PermSets(all) == {{}, all} \cup {{p} : p \in all}

NoRequest == [view |-> "none"]
NoResponse == [view |-> "none", status |-> "none"]

RelViews == {"CreateRelationship", "EditRelationship", "DeleteRelationship"}

\* The requests on the relationship views, over nu users and np projects.
RelRequestsOver(nu, np, permsets) ==
    {r \in [view : RelViews, method : {"GET", "POST"}, perms : permsets,
            user_id : ParamValues(nu) \cup {None},
            project_id : ParamValues(np) \cup {None},
            form_user : (1..nu) \cup {NoObj},
            form_project : (1..np) \cup {NoObj},
            form_valid : BOOLEAN, types : SUBSET RelationshipTypes] :
        \* the fields a view does not read are held at one value
        /\ (r.view # "CreateRelationship" \/ Truthy(r.user_id)) => r.form_user = NoObj
        /\ (r.view # "CreateRelationship" \/ Truthy(r.project_id)) => r.form_project = NoObj
        /\ (r.view # "EditRelationship" \/ r.method # "POST")
             => (r.form_valid /\ r.types = {})
        /\ ~r.form_valid => r.types = {}}

RelRequests == RelRequestsOver(NumUsers, NumProjects, PermSets(RelPerms))

(***************************************************************************)
(* Spec: the relationship views over a fixed set of users and projects.    *)
(***************************************************************************)
Init ==
    /\ users = 1..NumUsers
    /\ projects = 1..NumProjects
    /\ businesses = {}
    /\ rels = {}
    /\ req = NoRequest
    /\ resp = NoResponse
    /\ trace = <<>>
    /\ Unused

\* One request on a relationship view, answered whole (commit_on_success:
\* the writes of a request that raises are rolled back).
Relationship ==
    /\ req = NoRequest
    /\ \E r \in RelRequests :
        LET a == RelationshipView(r, rels)
        IN  /\ req' = r
            /\ resp' = [view |-> r.view, status |-> a.status]
            /\ rels' = a.rels
            /\ trace' = a.trace
            /\ UNCHANGED <<users, projects, businesses, unused>>

\* The response is sent and the view instance discarded: nothing but the
\* store outlives a request.
Finish ==
    /\ req # NoRequest
    /\ req' = NoRequest
    /\ resp' = NoResponse
    /\ trace' = <<>>
    /\ UNCHANGED <<users, projects, businesses, rels, unused>>

Next == Relationship \/ Finish

Spec == Init /\ [][Next]_vars

(***************************************************************************)
(* SpecPerm: every view, by requesters holding none, one, all but one or   *)
(* all of the permissions, over a store of at most two users, one project  *)
(* and one business.                                                       *)
(***************************************************************************)
AllPerms ==
    RelPerms \cup
    {"entries.view_entry_summary", "entries.view_project_time_sheet",
     "crm.view_business", "crm.add_business", "crm.delete_business", "crm.change_business",
     "auth.view_user", "auth.add_user", "auth.delete_user", "auth.change_user",
     "crm.view_project", "crm.add_project", "crm.delete_project", "crm.change_project"}

Capacity == [users |-> 2, projects |-> 1, businesses |-> 1]

\* A requester is a stored user with some permissions, or anonymous.
Requesters(us) ==
    {[id |-> Anonymous, perms |-> {}]} \cup
    [id : us, perms : PermSets(AllPerms) \cup {AllPerms \ {p} : p \in AllPerms}]

PkParams == {"1", "2", "3"}

CrudRequests ==
    {r \in [view : CrudViews, method : {"GET", "POST"}, pk : PkParams,
            form_valid : BOOLEAN] :
        /\ base(r.view) \in {"SearchListView", "DetailView"}
             => (r.method = "GET" /\ r.form_valid)
        /\ base(r.view) \in {"SearchListView", "CreateView"} => r.pk = "1"
        /\ (r.method = "GET" \/ base(r.view) = "DeleteView") => r.form_valid}

LoginRequests ==
    [view : {"ViewUserTimesheet", "ViewUserTimesheetAjax"}, user_id : PkParams]
    \cup [view : {"QuickSearch", "EditSettings"}, user_id : {"1"}]

TimesheetRequests ==
    [view : {"ProjectTimesheet", "ProjectTimesheetCSV"}, project_id : {"1", "2"},
     query : {<<>>, [csv |-> <<"1">>]}]

PermRelRequests ==
    {r \in RelRequestsOver(2, 1, {{}}) :
        r.user_id \in PkParams /\ r.project_id \in {"1", "2"}}

Store == [users |-> users, projects |-> projects, businesses |-> businesses,
          rels |-> rels]

InitPerm ==
    /\ users = {1, 2}
    /\ projects = {1}
    /\ businesses = {1}
    /\ rels = {}
    /\ req = NoRequest
    /\ resp = NoResponse
    /\ trace = <<>>
    /\ Unused

PermCrud ==
    /\ req = NoRequest
    /\ \E who \in Requesters(users), q \in CrudRequests :
        LET r == who @@ q
            a == CrudView(r, Store)
        IN  /\ base(r.view) = "CreateView"
                => Cardinality(Store[model(r.view)]) < Capacity[model(r.view)]
            /\ req' = r
            /\ resp' = [view |-> r.view, status |-> a.status]
            /\ users' = a.store.users
            /\ projects' = a.store.projects
            /\ businesses' = a.store.businesses
            /\ rels' = a.store.rels
            /\ trace' = a.trace
            /\ UNCHANGED unused

PermRelationship ==
    /\ req = NoRequest
    /\ \E who \in Requesters(users), q \in PermRelRequests :
        LET r == who @@ q
            a == RelationshipView(r, rels)
        IN  /\ req' = r
            /\ resp' = [view |-> r.view, status |-> a.status]
            /\ rels' = a.rels
            /\ trace' = a.trace
            /\ UNCHANGED <<users, projects, businesses, unused>>

PermLogin ==
    /\ req = NoRequest
    /\ \E who \in Requesters(users), q \in LoginRequests :
        LET r == who @@ q
            a == LoginView(r)
        IN  /\ req' = r
            /\ resp' = [view |-> r.view, status |-> a.status]
            /\ trace' = a.trace
            /\ UNCHANGED <<users, projects, businesses, rels, unused>>

PermTimesheet ==
    /\ req = NoRequest
    /\ \E who \in Requesters(users), q \in TimesheetRequests :
        LET r == who @@ q
            a == ProjectTimesheetView(r)
        IN  /\ req' = r
            /\ resp' = [view |-> r.view, status |-> a.status]
            /\ trace' = a.trace
            /\ UNCHANGED <<users, projects, businesses, rels, unused>>

NextPerm == PermCrud \/ PermRelationship \/ PermLogin \/ PermTimesheet \/ Finish

SpecPerm == InitPerm /\ [][NextPerm]_vars

(***************************************************************************)
(* SpecCsv: GET requests on the project timesheet and its CSV export, and  *)
(* the client following the redirects it is answered with.                 *)
(***************************************************************************)
MaxValues == 2

QueryKeys == {"csv", "month"}
QueryValues == {"1", "2"}

SeqsUpTo(S, n) == UNION {[1..k -> S] : k \in 1..n}

QueryDicts == UNION {[keys -> SeqsUpTo(QueryValues, MaxValues)] : keys \in SUBSET QueryKeys}

CsvRequests ==
    [view : {"ProjectTimesheet", "ProjectTimesheetCSV"}, project_id : {"1", "2"},
     query : QueryDicts, perms : {{}, {"entries.view_project_time_sheet"}}]

InitCsv ==
    /\ users = {}
    /\ projects = {1}
    /\ businesses = {}
    /\ rels = {}
    /\ req = NoRequest
    /\ resp = NoResponse
    /\ trace = <<>>
    /\ Unused

Answered(r) ==
    LET a == ProjectTimesheetView(r)
    IN  /\ req' = r
        /\ resp' = [view |-> r.view, status |-> a.status, location |-> a.location]
        /\ trace' = a.trace

CsvRequest ==
    /\ req = NoRequest
    /\ \E r \in CsvRequests : Answered(r)
    /\ UNCHANGED <<users, projects, businesses, rels, unused>>

\* The client requests the Location of a redirect.
CsvFollow ==
    /\ req # NoRequest
    /\ resp.status = "redirect"
    /\ Answered([view |-> resp.location.view,
                 project_id |-> ToString(resp.location.project),
                 query |-> resp.location.query, perms |-> req.perms])
    /\ hops' = hops + 1
    /\ UNCHANGED <<users, projects, businesses, rels, entries, rows, procs>>

CsvFinish ==
    /\ req # NoRequest
    /\ req' = NoRequest
    /\ resp' = NoResponse
    /\ trace' = <<>>
    /\ hops' = 0
    /\ UNCHANGED <<users, projects, businesses, rels, entries, rows, procs>>

NextCsv == CsvRequest \/ CsvFollow \/ CsvFinish

SpecCsv == InitCsv /\ [][NextCsv]_vars

(***************************************************************************)
(* SpecWeeks: the JSON endpoint asked for the weeks of a month.            *)
(***************************************************************************)
NumYears == 10

MonthForms == [year : 2012..(2011 + NumYears), month : 1..12]

InitWeeks ==
    /\ users = {1}
    /\ projects = {}
    /\ businesses = {}
    /\ rels = {}
    /\ req = NoRequest
    /\ resp = NoResponse
    /\ trace = <<>>
    /\ Unused

\* ViewUserTimesheetAjax.get for the requester's own timesheet.
WeeksRequest ==
    /\ req = NoRequest
    /\ \E form \in MonthForms :
        LET r == [view |-> "ViewUserTimesheetAjax", id |-> 1, perms |-> {},
                  user_id |-> "1", month_form |-> form]
            a == LoginView(r)
        IN  /\ req' = r
            /\ resp' = [view |-> r.view, status |-> a.status,
                        weeks |-> get_weeks(r.month_form)]
            /\ trace' = a.trace
    /\ UNCHANGED <<users, projects, businesses, rels, unused>>

NextWeeks == WeeksRequest \/ Finish

SpecWeeks == InitWeeks /\ [][NextWeeks]_vars

(***************************************************************************)
(* SpecSheet: the project timesheet and its CSV export over every table of *)
(* at most MaxEntries entries.                                             *)
(***************************************************************************)
MaxEntries == 2

EntryRows ==
    [user : {[first |-> "ann", last |-> "lee"], [first |-> "bob", last |-> "lee"]},
     activity : {"dev", NoActivity}, project : {1, 2}, month : {1, 2}, hours : {1, 2}]

InitSheet ==
    /\ users = {}
    /\ projects = {1, 2}
    /\ businesses = {}
    /\ rels = {}
    /\ req = NoRequest
    /\ resp = NoResponse
    /\ trace = <<>>
    /\ hops = 0
    /\ entries \in UNION {[1..n -> EntryRows] : n \in 0..MaxEntries}
    /\ rows = {}
    /\ procs = <<>>

SheetRequests ==
    [view : {"ProjectTimesheet", "ProjectTimesheetCSV"}, project_id : {"1"},
     query : {<<>>}, month : {1, 2}, perms : {{"entries.view_project_time_sheet"}}]

\* DetailView.get of ProjectTimesheet: the context is rendered.
SheetHtml ==
    /\ req = NoRequest
    /\ \E r \in SheetRequests :
        /\ r.view = "ProjectTimesheet"
        /\ \E context \in get_context_data(entries, int(r.project_id), r.month) :
            /\ req' = r
            /\ resp' = [view |-> r.view, status |-> ProjectTimesheetView(r).status,
                        context |-> context]
            /\ trace' = ProjectTimesheetView(r).trace
    /\ UNCHANGED <<users, projects, businesses, rels, unused>>

\* The same of ProjectTimesheetCSV: CSVViewMixin writes the rows of
\* convert_context_to_csv(context).
SheetCsv ==
    /\ req = NoRequest
    /\ \E r \in SheetRequests :
        /\ r.view = "ProjectTimesheetCSV"
        /\ \E context \in get_context_data(entries, int(r.project_id), r.month) :
            /\ req' = r
            /\ resp' = [view |-> r.view, status |-> ProjectTimesheetView(r).status,
                        context |-> context, csv |-> convert_context_to_csv(context)]
            /\ trace' = ProjectTimesheetView(r).trace
    /\ UNCHANGED <<users, projects, businesses, rels, unused>>

SheetFinish ==
    /\ req # NoRequest
    /\ req' = NoRequest
    /\ resp' = NoResponse
    /\ trace' = <<>>
    /\ UNCHANGED <<users, projects, businesses, rels, unused>>

NextSheet == SheetHtml \/ SheetCsv \/ SheetFinish

SpecSheet == InitSheet /\ [][NextSheet]_vars

(***************************************************************************)
(* SpecList: the three list views over every table of at most MaxRows rows. *)
(***************************************************************************)
MaxRows == 2

Texts == {<<"A", "b">>, <<"c">>}
Searches == {<<>>, <<"a">>, <<"B">>, <<"a", "b">>, <<"b", "c">>, <<"c">>}
Statuses == {"current", "complete"}

RowsFor(view) ==
    CASE view = "ListBusinesses" -> [name : Texts, description : Texts]
      [] view = "ListUsers" ->
            [first_name : Texts, last_name : Texts, email : Texts, username : Texts]
      [] view = "ListProjects" -> [name : Texts, description : Texts, status : Statuses]

ListViews == {"ListBusinesses", "ListUsers", "ListProjects"}

\* The tables of a model: their rows, each with its pk, in pk order.
TablesFor(view) ==
    UNION {{[i \in 1..n |-> [pk |-> i] @@ t[i]] : t \in [1..n -> RowsFor(view)]} :
             n \in 0..MaxRows}

InitList ==
    /\ users = {}
    /\ projects = {}
    /\ businesses = {}
    /\ rels = {}
    /\ req = NoRequest
    /\ resp = NoResponse
    /\ trace = <<>>
    /\ hops = 0
    /\ entries = <<>>
    /\ \E view \in ListViews : rows \in [view : {view}, table : TablesFor(view)]
    /\ procs = <<>>

ListRequests(view) ==
    {r \in [view : {view}, perms : {{}, Permissions(view)}, bound : BOOLEAN,
            form : [search : Searches, status : {""} \cup Statuses]] :
        /\ ~r.bound => r.form = [search |-> <<>>, status |-> ""]
        /\ view # "ListProjects" => r.form.status = ""}

List ==
    /\ req = NoRequest
    /\ \E r \in ListRequests(rows.view) :
        LET a == ListView(r, rows.table)
        IN  /\ req' = r
            /\ resp' = [view |-> r.view, status |-> a.status, location |-> a.location,
                        object_list |-> a.object_list]
    /\ UNCHANGED <<users, projects, businesses, rels, trace, unused>>

NextList == List \/ Finish

SpecList == InitList /\ [][NextList]_vars

(***************************************************************************)
(* SpecConc: relationship requests run concurrently, statement by          *)
(* statement, against a store that reads committed rows, locks the rows a  *)
(* transaction has written and keeps (user, project) unique.  Requesters   *)
(* hold the permissions and all name the one stored user and project.      *)
(***************************************************************************)
NumProcs == 2

Procs == 1..NumProcs

IdleProc == [pc |-> "idle", view |-> "none", user |-> NoObj, project |-> NoObj,
             types |-> {}, row |-> NoObj, writes |-> <<>>, status |-> "none"]

\* (mutant) EditRelationship loses its commit_on_success
commit_on_success_dropped(view) == view # "EditRelationship"

\* cbv_decorator(transaction.commit_on_success) on the view class: its writes
\* are committed together when the view returns, and rolled back when it
\* raises.  A view without it commits each write as it is made.
commit_on_success(view) == view \in RelViews

\* One statement applied to the committed rows.
ApplyOp(op, store) ==
    CASE op.do = "insert" -> store \cup {op.row}
      [] op.do = "delete" -> {x \in store : x.n # op.n}
      [] op.do = "clear" -> {IF x.n = op.n THEN [x EXCEPT !.types = {}] ELSE x : x \in store}
      [] op.do = "add" ->
            {IF x.n = op.n THEN [x EXCEPT !.types = @ \cup op.types] ELSE x : x \in store}
      [] OTHER -> store

RECURSIVE Apply(_, _)
Apply(ops, store) ==
    IF ops = <<>> THEN store ELSE Apply(Tail(ops), ApplyOp(ops[1], store))

\* The row a statement writes, and the pair an insert claims in the unique
\* index.
Touches(op, n) == IF op.do = "insert" THEN op.row.n = n ELSE op.n = n
Claims(op, u, pr) == op.do = "insert" /\ op.row.user = u /\ op.row.project = pr

\* Another transaction holds the row's lock, or an uncommitted insert of the
\* pair: the statement waits.
Locked(p, n) ==
    \E q \in Procs \ {p} : \E i \in DOMAIN procs[q].writes : Touches(procs[q].writes[i], n)
Claimed(p, u, pr) ==
    \E q \in Procs \ {p} : \E i \in DOMAIN procs[q].writes : Claims(procs[q].writes[i], u, pr)

\* A pk no stored row, pending insert or fetched instance has.
UsedPks ==
    {x.n : x \in rels} \cup {procs[q].row : q \in Procs}
    \cup UNION {{procs[q].writes[i].row.n :
                    i \in {j \in DOMAIN procs[q].writes : procs[q].writes[j].do = "insert"}} :
                q \in Procs}
NewPk == CHOOSE i \in 1..(Cardinality(UsedPks) + 1) : i \notin UsedPks

\* The process executes a statement: inside commit_on_success it joins the
\* transaction's writes; otherwise it is committed at once.
Execute(p, op, pc) ==
    IF commit_on_success(procs[p].view)
    THEN /\ procs' = [procs EXCEPT ![p].writes = Append(@, op), ![p].pc = pc]
         /\ rels' = rels
    ELSE /\ procs' = [procs EXCEPT ![p].pc = pc]
         /\ rels' = ApplyOp(op, rels)

\* The view raises: the transaction is rolled back.
Raise(p, status) ==
    /\ procs' = [procs EXCEPT ![p].writes = <<>>, ![p].pc = "done", ![p].status = status]
    /\ rels' = rels

InitConc ==
    /\ users = {1}
    /\ projects = {1}
    /\ businesses = {}
    /\ rels = {}
    /\ req = NoRequest
    /\ resp = NoResponse
    /\ trace = <<>>
    /\ hops = 0
    /\ entries = <<>>
    /\ rows = {}
    /\ procs = [p \in Procs |-> IdleProc]

\* A POST arrives at one of the relationship views.
ConcStart(p) ==
    /\ procs[p].pc = "idle"
    /\ \E view \in RelViews, u \in users, pr \in projects, types \in SUBSET RelationshipTypes :
        /\ view # "EditRelationship" => types = {}
        /\ procs' = [procs EXCEPT ![p] = [IdleProc EXCEPT !.pc = "get", !.view = view,
                                             !.user = u, !.project = pr, !.types = types]]
    /\ rels' = rels

\* get_or_create's get, or get_object.
ConcGet(p) ==
    /\ procs[p].pc = "get"
    /\ LET found == RowsOf(rels, procs[p].user, procs[p].project)
       IN  IF procs[p].view = "CreateRelationship"
           THEN procs' = [procs EXCEPT ![p].pc = IF found = {} THEN "insert" ELSE "commit"]
           ELSE IF found = {} THEN procs' = [procs EXCEPT ![p].pc = "done",
                                                          ![p].status = "not_found"]
           ELSE procs' = [procs EXCEPT
                    ![p].row = (CHOOSE x \in found : TRUE).n,
                    ![p].pc = IF procs[p].view = "EditRelationship" THEN "save" ELSE "delete"]
    /\ rels' = rels

\* get_or_create's create: the INSERT, or the IntegrityError of the unique
\* index, after which get_or_create gets again.
ConcInsert(p) ==
    /\ procs[p].pc = "insert"
    /\ ~Claimed(p, procs[p].user, procs[p].project)
    /\ IF RowsOf(rels, procs[p].user, procs[p].project) # {}
       THEN procs' = [procs EXCEPT ![p].pc = "reget"] /\ rels' = rels
       ELSE Execute(p, [do |-> "insert",
                        row |-> [user |-> procs[p].user, project |-> procs[p].project,
                                 types |-> {}, n |-> NewPk]], "commit")

ConcReget(p) ==
    /\ procs[p].pc = "reget"
    /\ IF RowsOf(rels, procs[p].user, procs[p].project) # {}
       THEN procs' = [procs EXCEPT ![p].pc = "commit"] /\ rels' = rels
       ELSE Raise(p, "server_error")

\* UpdateView's form.save(): the instance's row is updated, or inserted again
\* when it is gone; then save_m2m sets the types (ConcClear, ConcAdd).
ConcSave(p) ==
    /\ procs[p].pc = "save"
    /\ ~Locked(p, procs[p].row)
    /\ ~Claimed(p, procs[p].user, procs[p].project)
    /\ IF \E x \in rels : x.n = procs[p].row
       THEN Execute(p, [do |-> "update", n |-> procs[p].row], "clear")
       ELSE IF RowsOf(rels, procs[p].user, procs[p].project) # {}
            THEN Raise(p, "server_error")
            ELSE Execute(p, [do |-> "insert",
                             row |-> [user |-> procs[p].user, project |-> procs[p].project,
                                      types |-> {}, n |-> procs[p].row]], "clear")

ConcClear(p) ==
    /\ procs[p].pc = "clear"
    /\ ~Locked(p, procs[p].row)
    /\ Execute(p, [do |-> "clear", n |-> procs[p].row], "add")

ConcAdd(p) ==
    /\ procs[p].pc = "add"
    /\ ~Locked(p, procs[p].row)
    /\ Execute(p, [do |-> "add", n |-> procs[p].row, types |-> procs[p].types], "commit")

\* DeleteView's object.delete()
ConcDelete(p) ==
    /\ procs[p].pc = "delete"
    /\ ~Locked(p, procs[p].row)
    /\ Execute(p, [do |-> "delete", n |-> procs[p].row], "commit")

\* The view returns its redirect: commit_on_success commits.
ConcCommit(p) ==
    /\ procs[p].pc = "commit"
    /\ rels' = Apply(procs[p].writes, rels)
    /\ procs' = [procs EXCEPT ![p].writes = <<>>, ![p].pc = "done", ![p].status = "redirect"]

ConcFinish(p) ==
    /\ procs[p].pc = "done"
    /\ procs' = [procs EXCEPT ![p] = IdleProc]
    /\ rels' = rels

ConcUnchanged == UNCHANGED <<users, projects, businesses, req, resp, trace, hops, entries, rows>>

NextConc ==
    \/ ConcUnchanged /\ \E p \in Procs : ConcStart(p)
    \/ ConcUnchanged /\ \E p \in Procs : ConcGet(p)
    \/ ConcUnchanged /\ \E p \in Procs : ConcInsert(p)
    \/ ConcUnchanged /\ \E p \in Procs : ConcReget(p)
    \/ ConcUnchanged /\ \E p \in Procs : ConcSave(p)
    \/ ConcUnchanged /\ \E p \in Procs : ConcClear(p)
    \/ ConcUnchanged /\ \E p \in Procs : ConcAdd(p)
    \/ ConcUnchanged /\ \E p \in Procs : ConcDelete(p)
    \/ ConcUnchanged /\ \E p \in Procs : ConcCommit(p)
    \/ ConcUnchanged /\ \E p \in Procs : ConcFinish(p)

SpecConc == InitConc /\ [][NextConc]_vars

(***************************************************************************)
(* Relationship claims.                                                    *)
(***************************************************************************)
\* The stored user or project a create request names: by its id parameter,
\* or by the form when the parameter is absent or empty.  NoObj when none.
NamedObj(table, value, form_obj) ==
    IF Truthy(value)
    THEN (IF IsInt(value) /\ int(value) \in table THEN int(value) ELSE NoObj)
    ELSE form_obj

CreateFor(r, u, p) ==
    /\ r.view = "CreateRelationship" /\ r.method = "POST"
    /\ "crm.add_projectrelationship" \in r.perms
    /\ NamedObj(users, r.user_id, r.form_user) = u
    /\ NamedObj(projects, r.project_id, r.form_project) = p

\* C1: after a CreateRelationship.post for a stored user and a stored project,
\* by a requester holding crm.add_projectrelationship, the answer is the
\* success redirect and the store holds exactly one row for the pair, however
\* many creates came before.
C1_CreateTwiceOneRow ==
    \A u \in users, p \in projects :
        CreateFor(req, u, p)
            => /\ resp.status = "redirect"
               /\ Cardinality(RowsOf(rels, u, p)) = 1

\* A create answered for a pair whose row was already stored: no write.
C1_SecondCreate ==
    \E u \in users, p \in projects :
        /\ CreateFor(req, u, p)
        /\ resp.status = "redirect"
        /\ trace = <<"check_permissions", "read:User", "read:Project",
                     "read:ProjectRelationship">>
        /\ Cardinality(RowsOf(rels, u, p)) = 1

\* A truthy id parameter that is the pk of no stored row.
NamesNoRow(table, value) ==
    Truthy(value) /\ ~(IsInt(value) /\ int(value) \in table)

\* No stored association has the (user_id, project_id) of the request.
NoAssociation(r, store) ==
    ~\E row \in store :
        ToString(row.user) = r.user_id /\ ToString(row.project) = r.project_id

MissingEntity(r, store) ==
    /\ r # NoRequest
    /\ Permissions(r.view) \subseteq r.perms
    /\ \/ /\ r.view = "CreateRelationship" /\ r.method = "POST"
          /\ NamesNoRow(users, r.user_id) \/ NamesNoRow(projects, r.project_id)
       \/ /\ r.view \in {"EditRelationship", "DeleteRelationship"}
          /\ NoAssociation(r, store)

\* C8: a relationship request (by a requester the view admits) that names a
\* missing entity is answered not-found and leaves the rows as they were:
\* a create whose user_id or project_id names no stored row, an edit or
\* delete whose (user_id, project_id) has no stored association.
C8_MissingEntityNotFound ==
    [][MissingEntity(req', rels)
         => resp'.status = "not_found" /\ rels' = rels]_vars

(***************************************************************************)
(* Permission claims.                                                      *)
(***************************************************************************)
UserTimesheetViews == {"ViewUserTimesheet", "ViewUserTimesheetAjax"}

\* A request for the timesheet of a stored user.
TimesheetOf(r, u) ==
    r.view \in UserTimesheetViews /\ u \in users /\ r.user_id = ToString(u)

NotAllowed(r, u) == r.id # u /\ "entries.view_entry_summary" \notin r.perms

\* C2 as stated: on both timesheet views, a requester who is not the
\* timesheet's user and lacks entries.view_entry_summary is answered
\* forbidden and the view's get is not reached; the user themselves is
\* served without the permission.
C2_ForbiddenOnBothViews ==
    \A u \in users :
        TimesheetOf(req, u)
            => /\ NotAllowed(req, u)
                    => resp.status = "forbidden" /\ \A i \in DOMAIN trace : trace[i] # "get"
               /\ req.id = u => resp.status = "ok"

\* C2, amended: as stated for an authenticated requester on both views and
\* for an anonymous one on the JSON endpoint; ViewUserTimesheet, behind
\* login_required, answers an anonymous requester with the redirect to the
\* login page.  In no such case is the view's get reached.
C2_ForbiddenOrLogin ==
    \A u \in users :
        TimesheetOf(req, u)
            => /\ NotAllowed(req, u)
                    => /\ resp.status =
                            IF req.view = "ViewUserTimesheet" /\ req.id = Anonymous
                            THEN "login_redirect" ELSE "forbidden"
                       /\ \A i \in DOMAIN trace : trace[i] # "get"
               /\ req.id = u => resp.status = "ok"

\* An anonymous request on the JSON endpoint, refused.
C2_AnonymousAjaxRefused ==
    /\ \E u \in users : TimesheetOf(req, u)
    /\ req.view = "ViewUserTimesheetAjax"
    /\ req.id = Anonymous
    /\ resp.status = "forbidden"

\* The permission a view is to ask for: view, add, change or delete of its
\* model, by the operation the view performs.
ExpectedPerm(view) ==
    LET op == CASE view \in {"ListBusinesses", "ViewBusiness", "ListUsers", "ViewUser",
                             "ListProjects", "ViewProject"} -> "view"
                [] view \in {"CreateBusiness", "CreateUser", "CreateProject",
                             "CreateRelationship"} -> "add"
                [] view \in {"EditBusiness", "EditUser", "EditProject",
                             "EditRelationship"} -> "change"
                [] OTHER -> "delete"
        noun == CASE model(view) = "businesses" /\ view \notin RelViews -> "crm._business"
                  [] model(view) = "users" -> "auth._user"
                  [] view \in RelViews -> "crm._projectrelationship"
                  [] OTHER -> "crm._project"
    IN  IF view \in {"ProjectTimesheet", "ProjectTimesheetCSV"}
        THEN "entries.view_project_time_sheet"
        ELSE CASE noun = "crm._business" -> "crm." \o op \o "_business"
               [] noun = "auth._user" -> "auth." \o op \o "_user"
               [] noun = "crm._projectrelationship" -> "crm." \o op \o "_projectrelationship"
               [] OTHER -> "crm." \o op \o "_project"

DeclaredViews == CrudViews \cup RelViews \cup {"ProjectTimesheet", "ProjectTimesheetCSV"}

\* The requester lacks what the view asks: its permission, or on a user
\* timesheet, being the user or holding entries.view_entry_summary.
Lacks(r) ==
    \/ r.view \in DeclaredViews /\ ExpectedPerm(r.view) \notin r.perms
    \/ r.view \in UserTimesheetViews
         /\ (r.id = Anonymous \/ r.user_id # ToString(r.id))
         /\ "entries.view_entry_summary" \notin r.perms

RefusedFirst(r) ==
    /\ resp'.status = "forbidden"
    /\ trace' = <<"check_permissions">>
    /\ Store' = Store

\* C6 as stated: on every view, a request lacking the required permission is
\* answered forbidden, the permission check is the first and only thing the
\* request does (no read, no write before it), and the store is unchanged.
C6_EveryViewChecksFirst ==
    [][Lacks(req') => RefusedFirst(req')]_vars

\* C6, amended: that holds of the views that declare `permissions` (the list,
\* view, create, edit and delete views of Business, User and Project, the
\* project timesheet and its CSV, the relationship views), each asking for
\* the view, add, change or delete permission of its own operation and for
\* no other; the user timesheet views read the timesheet's User before they
\* check.
C6_DeclaredViewsCheckFirst ==
    [][req'.view \in DeclaredViews
         => /\ ExpectedPerm(req'.view) \notin req'.perms => RefusedFirst(req')
            /\ ExpectedPerm(req'.view) \in req'.perms => resp'.status # "forbidden"]_vars

\* A POST by a requester who holds every permission but the view's own,
\* refused.
C6_AllButOwnRefused ==
    /\ req.view \in DeclaredViews
    /\ req.method = "POST"
    /\ req.perms = AllPerms \ {ExpectedPerm(req.view)}
    /\ resp.status = "forbidden"

(***************************************************************************)
(* Project timesheet claims.                                               *)
(***************************************************************************)
\* C10: a GET on the project timesheet (or on its CSV export, which inherits
\* the same get) whose query holds csv is answered with a redirect to that
\* project's CSV export whose query is the request's without csv, every other
\* parameter unchanged; a GET without csv is served with no redirect; and the
\* client that follows redirects follows at most one.
C10_CsvRedirectKeepsQuery ==
    (/\ req # NoRequest
     /\ "entries.view_project_time_sheet" \in req.perms
     /\ req.project_id = "1")
        => /\ ("csv" \in DOMAIN req.query /\ hops = 0)
                => /\ resp.status = "redirect"
                   /\ resp.location.view = "ProjectTimesheetCSV"
                   /\ resp.location.project = 1
                   /\ resp.location.query = pop(req.query, "csv")
           /\ "csv" \notin DOMAIN req.query => resp.status = "ok"
           /\ hops >= 1 => resp.status # "redirect"

(***************************************************************************)
(* User timesheet weeks.                                                   *)
(***************************************************************************)
Wall(d) == <<d.day, d.sec, d.usec>>

\* The instant one microsecond after d.
NextInstant(d) ==
    IF d.usec < 999999 THEN <<d.day, d.sec, d.usec + 1>>
    ELSE IF d.sec < 86399 THEN <<d.day, d.sec + 1, 0>>
    ELSE <<d.day + 1, 0, 0>>

\* C3: the weeks get_weeks returns cover the extended month range with no
\* gap and no overlap: the first starts at the range's start, each next one
\* starts one microsecond after the one before ends, each spans seven days,
\* and the last ends at the range's end.
C3_WeeksCoverRange ==
    req.view = "ViewUserTimesheetAjax" =>
        LET weeks == resp.weeks
            range == get_extended_month_range(req.month_form)
        IN  /\ Len(weeks) >= 1
            /\ Wall(weeks[1][1]) = Wall(range[1])
            /\ \A i \in 1..(Len(weeks) - 1) :
                  Wall(weeks[i + 1][1]) = NextInstant(weeks[i][2])
            /\ \A i \in 1..Len(weeks) :
                  NextInstant(weeks[i][2]) = <<weeks[i][1].day + 7, weeks[i][1].sec,
                                                weeks[i][1].usec>>
            /\ Wall(weeks[Len(weeks)][2]) = Wall(range[2])

\* A month of six weeks: March 2015 starts on a Sunday.
C3_SixWeeks ==
    /\ req.view = "ViewUserTimesheetAjax"
    /\ req.month_form = [year |-> 2015, month |-> 3]
    /\ Len(resp.weeks) = 6

(***************************************************************************)
(* Project timesheet totals and CSV.                                       *)
(***************************************************************************)
RECURSIVE SumOfSums(_)
SumOfSums(groups) == IF groups = <<>> THEN 0 ELSE groups[1].sum + SumOfSums(Tail(groups))

Descending(groups) == \A i \in 1..(Len(groups) - 1) : groups[i].sum >= groups[i + 1].sum

\* C4: whatever the entries of the project in the month (none at all, or
\* entries without an activity, included), the context's total is a number,
\* equal to the sum of the sums of user_entries and to the sum of the sums of
\* activity_entries, and both lists are in descending order of sum.
C4_TotalIsSumOfGroups ==
    req.view \in {"ProjectTimesheet", "ProjectTimesheetCSV"} =>
        LET c == resp.context
        IN  /\ ~c.total.null
            /\ c.total.value = SumOfSums(c.user_entries)
            /\ c.total.value = SumOfSums(c.activity_entries)
            /\ Descending(c.user_entries)
            /\ Descending(c.activity_entries)

\* C5: the CSV of a project timesheet has one row per entry of the context
\* and two more: first the header, then the entries' rows in the context's
\* order, last the totals row, 'Total:' in its seventh cell and the context's
\* total in its eighth.
C5_CsvRows ==
    req.view = "ProjectTimesheetCSV" =>
        LET c == resp.context
            csv == resp.csv
        IN  /\ Len(csv) = Len(c.entries) + 2
            /\ csv[1] = <<"Date", "User", "Activity", "Location", "Time In",
                          "Time Out", "Breaks", "Hours">>
            /\ \A i \in 1..Len(c.entries) :
                  /\ csv[i + 1][1].of = <<"start_time", c.entries[i].pk>>
                  /\ csv[i + 1][2] = c.entries[i].user.first \o " " \o c.entries[i].user.last
                  /\ csv[i + 1][3] = c.entries[i].activity
                  /\ csv[i + 1][8] = c.entries[i].hours
            /\ Len(csv[Len(csv)]) = 8
            /\ csv[Len(csv)][7] = "Total:"
            /\ csv[Len(csv)][8] = c.total

\* A CSV of two entries: four rows.
C5_TwoEntries ==
    /\ req.view = "ProjectTimesheetCSV"
    /\ Len(resp.context.entries) = 2
    /\ Len(resp.csv) = 4

(***************************************************************************)
(* List views.                                                             *)
(***************************************************************************)
\* The rows a search is to find: those with the search text in their name or
\* description (businesses, projects; projects of the chosen status only) or
\* in their names, email or username (users).
Found(r, table) ==
    {row \in {table[i] : i \in DOMAIN table} :
        /\ \/ r.form.search = <<>>
           \/ /\ r.view \in {"ListBusinesses", "ListProjects"}
              /\ icontains(row.name, r.form.search)
                    \/ icontains(row.description, r.form.search)
           \/ /\ r.view = "ListUsers"
              /\ \/ icontains(row.first_name, r.form.search)
                 \/ icontains(row.last_name, r.form.search)
                 \/ icontains(row.email, r.form.search)
                 \/ icontains(row.username, r.form.search)
        /\ (r.view = "ListProjects" /\ r.form.status # "") => row.status = r.form.status}

IsSearch(r) ==
    /\ r # NoRequest
    /\ r.view \in ListViews
    /\ r.bound
    /\ Permissions(r.view) \subseteq r.perms

\* C9: on each of the three list views, a search that finds exactly one row
\* is answered with a redirect to that row's detail page; a search that finds
\* none, or two or more, is answered with the list page.
C9_OneResultRedirects ==
    IsSearch(req) =>
        LET found == Found(req, rows.table)
        IN  IF Cardinality(found) = 1
            THEN /\ resp.status = "redirect"
                 /\ resp.location.view = DetailOf(req.view)
                 /\ \E row \in found : resp.location.pk = row.pk
            ELSE /\ resp.status = "ok"
                 /\ resp.object_list = found

\* A search of two users that finds one of them.
C9_OneOfTwoUsers ==
    /\ IsSearch(req)
    /\ req.view = "ListUsers"
    /\ Len(rows.table) = 2
    /\ resp.status = "redirect"

(***************************************************************************)
(* Concurrent relationship requests.                                       *)
(***************************************************************************)
\* C7: however create, edit and delete requests on the relationships
\* interleave, the stored rows change only when a request commits, and then
\* by all of that request's writes at once; and no state holds two rows for
\* one (user, project) pair.
C7_AtomicAndUnique ==
    [][/\ \A u \in users, pr \in projects : Cardinality(RowsOf(rels', u, pr)) <= 1
       /\ rels' # rels =>
            \E p \in Procs : /\ procs[p].pc = "commit"
                             /\ procs'[p].pc = "done"
                             /\ procs[p].writes # <<>>
                             /\ rels' = Apply(procs[p].writes, rels)]_vars

\* Two creates of one pair raced: the second's INSERT met the first's
\* committed row.
C7_CreateRace ==
    \E p \in Procs :
        /\ procs # <<>>
        /\ procs[p].view = "CreateRelationship"
        /\ procs[p].pc = "reget"

====
